---- MODULE Spec2Model ----
(***************************************************************************)
(* A model of say.py: the providers, the AudioCache kept in one directory  *)
(* (metadata records <id>.json and audio payloads <id>.<format>), the      *)
(* TTSService orchestration and the part of main() that calls it.          *)
(*                                                                         *)
(* The cache directory is the state shared by successive invocations of    *)
(* the program.  One invocation is a process that constructs an AudioCache *)
(* or a TTSService and then calls their methods.                           *)
(***************************************************************************)
EXTENDS Integers, Sequences, FiniteSets, TLC

----------------------------------------------------------------------------
(* Bounds of the model.                                                    *)

\* AudioCache.MAX_CACHE_SIZE is 10 in say.py (line 177).  The model keeps the
\* name and scales the value down; every formula is stated in terms of it.
MAX_CACHE_SIZE == 2

\* Size of the identifier space of str(uuid.uuid4())[:8] (16^8 in say.py).
NumIds == 4

\* Number of file-writing calls (save_metadata, synthesize) that are explored
\* on top of the initial directory; each one is a tick of the clock.
MaxWrites == 1

\* Number of commits explored when invocations run step by step.
MaxCommits == 2

----------------------------------------------------------------------------
(* Values.                                                                 *)

Ids == 1 .. NumIds

\* Python's None in a str-or-None position.
None == "<None>"

\* OpenAITTSProvider.VOICES, reduced to two members, DEFAULT_VOICE among them.
VOICES == {"onyx", "alloy"}
DEFAULT_VOICE == "onyx"

\* OpenAITTSProvider.AUDIO_FORMATS, reduced to one format of each player class
\* (afplay: mp3; ffplay: opus), DEFAULT_FORMAT among them.
AUDIO_FORMATS == {"mp3", "opus"}
DEFAULT_FORMAT == "mp3"

\* The formats the temporary-file branch plays with afplay directly.
AfplayFormats == {"wav", "pcm", "mp3", "aac"}

\* The arguments of a speak request that callers pass: every combination of a
\* present and an absent voice and instructions, a voice and a format outside
\* the provider's sets, a default and an explicit format.
Requests ==
    { [text |-> "hello", voice |-> None,    instructions |-> None,       format |-> None],
      [text |-> "bye",   voice |-> "alloy", instructions |-> "cheerful", format |-> "opus"],
      [text |-> "hello", voice |-> "bogus", instructions |-> None,       format |-> "mp3"],
      [text |-> "bye",   voice |-> None,    instructions |-> "cheerful", format |-> "xyz"] }

OutputArgs == {None, "out.mp3"}

\* What the backend of a provider may do, and what a player process may do.
OpenAIOutcomes == {"ok", "auth", "error", "partial"}
SayOutcomes == {"ok", "error", "missing"}
PlayerOutcomes == {"ok", "fail", "missing"}
WriteOutcomes == {"ok", "open_fails", "write_fails"}

\* What the picker does for play_cached: `which fzf` finds nothing; Popen or
\* communicate raises; fzf exits non-zero (cancelled, no match); fzf exits 0
\* and prints nothing; fzf exits 0 and prints one of the lines it was given.
FzfOutcomes == {"absent", "error", "cancelled", "empty", "selected"}

\* The name of an audio payload in the cache directory: f"{cache_id}.{format}".
AudioName(cache_id, format) == <<cache_id, format>>

----------------------------------------------------------------------------
(* JSON, as json.dump and json.load treat the metadata dictionary.         *)

\* One JSON value: None is written as null, everything else as a string.
JsonBuggyEncode(v) == <<"str", IF v = None THEN "None" ELSE v>>

JsonEncode(v) == IF v = None THEN <<"null", "">> ELSE <<"str", v>>

JsonDecode(tok) == IF tok[1] = "null" THEN None ELSE tok[2]

\* json.dump(metadata, f): the text of a complete file.  `closed` is false for
\* a file whose text stops before the closing brace.
JsonDump(md) ==
    [closed |-> TRUE,
     pairs  |-> << <<"id", <<"str", md.id>> >>,
                   <<"timestamp", <<"str", md.timestamp>> >>,
                   <<"text", JsonEncode(md.text)>>,
                   <<"voice", JsonEncode(md.voice)>>,
                   <<"format", JsonEncode(md.format)>>,
                   <<"provider", JsonEncode(md.provider)>>,
                   <<"instructions", JsonEncode(md.instructions)>>,
                   <<"audio_file", <<"str", md.audio_file>> >> >>]

\* The text of a file that was opened for writing and never completed.
Truncated == [closed |-> FALSE, pairs |-> << >>]

JsonLookup(pairs, key) ==
    LET i == CHOOSE k \in 1 .. Len(pairs) : pairs[k][1] = key
    IN  pairs[i][2]

\* json.load raises on a text that is not a complete JSON value.
JsonParses(content) == content.closed

JsonLoad(content) ==
    [id           |-> JsonLookup(content.pairs, "id")[2],
     timestamp    |-> JsonLookup(content.pairs, "timestamp")[2],
     text         |-> JsonDecode(JsonLookup(content.pairs, "text")),
     voice        |-> JsonDecode(JsonLookup(content.pairs, "voice")),
     format       |-> JsonDecode(JsonLookup(content.pairs, "format")),
     provider     |-> JsonDecode(JsonLookup(content.pairs, "provider")),
     instructions |-> JsonDecode(JsonLookup(content.pairs, "instructions")),
     audio_file   |-> JsonLookup(content.pairs, "audio_file")[2]]

----------------------------------------------------------------------------
(* The state.                                                              *)

VARIABLES
    meta,        \* the *.json files of CACHE_DIR: id -> [mtime, content]
    audio,       \* the audio payloads of CACHE_DIR: a set of AudioName
    outFiles,    \* files written outside CACHE_DIR at an -o target
    tmpFiles,    \* the number of temporary audio files left in the temp area
    clock,       \* the clock: the mtime and the timestamp of the next write
    pc,          \* the process: "start", "cache" (an AudioCache was built),
                 \* "service" (a TTSService was built)
    provider,    \* TTSService.provider of the process, None before selection
    last,        \* the last call: its name, arguments, result, and for a
                 \* call that writes, the directory as it was before the call
    procs        \* the invocations that run step by step at the same time:
                 \* for each, where it is in AudioCache.__init__ and in the
                 \* cache branch of TTSService.synthesize, and its locals

vars == <<meta, audio, outFiles, tmpFiles, clock, pc, provider, last, procs>>

\* The result of a function that returns a dict or None: << >> is None and
\* <<md>> is the dict md.
NoMetadata == << >>

\* The record of a call, before any call was made.
NoCall ==
    [op |-> "none", id |-> 0, text |-> None, output_file |-> None,
     voice |-> None, instructions |-> None, format |-> None,
     providerName |-> None, cache |-> FALSE, apiKey |-> FALSE, checkOk |-> FALSE,
     fzf |-> None, selected |-> 0,
     ret |-> None, exc |-> None, msg |-> << >>, exit |-> None,
     listing |-> << >>, found |-> NoMetadata, calls |-> << >>,
     metaBefore |-> << >>, audioBefore |-> {}, outBefore |-> {},
     tmpBefore |-> 0]

\* The record of a call that reads the directory and of one that writes it.
Call(op) == [NoCall EXCEPT !.op = op]

WritingCall(op) ==
    [NoCall EXCEPT !.op = op, !.metaBefore = meta, !.audioBefore = audio,
                   !.outBefore = outFiles, !.tmpBefore = tmpFiles]

----------------------------------------------------------------------------
(* AudioCache.                                                             *)

\* An unlink that leaves the file where it is.
UnlinkNothing(m, id) == m

\* The directory without the file of one id: Path.unlink.
Unlink(m, id) == [i \in DOMAIN m \ {id} |-> m[i]]

\* sorted(CACHE_DIR.glob("*.json"), key=mtime, reverse=True), as the sequence
\* of the ids of the files.
Oldest(m, S) == CHOOSE i \in S : \A j \in S : m[i].mtime <= m[j].mtime

Newest(m, S) == CHOOSE i \in S : \A j \in S : m[j].mtime <= m[i].mtime

RECURSIVE SortedByMtime(_, _)
SortedByMtime(m, S) ==
    IF S = {} THEN << >>
    ELSE LET i == Newest(m, S) IN <<i>> \o SortedByMtime(m, S \ {i})

\* What open() and json.load raise on the file of an id.
LoadError(m, id) ==
    IF id \notin DOMAIN m THEN "FileNotFoundError"
    ELSE IF ~JsonParses(m[id].content) THEN "JSONDecodeError"
    ELSE None

\* AudioCache._load_metadata: the value returned and the exception that
\* leaves the function.  `except Exception: return None` lets none leave.
LoadMetadataUncaught(m, id) ==
    IF LoadError(m, id) = None
    THEN [value |-> <<JsonLoad(m[id].content)>>, exc |-> None]
    ELSE [value |-> NoMetadata, exc |-> LoadError(m, id)]

LoadMetadata(m, id) ==
    IF LoadError(m, id) = None
    THEN [value |-> <<JsonLoad(m[id].content)>>, exc |-> None]
    ELSE [value |-> NoMetadata, exc |-> None]

\* The loop of AudioCache._cleanup_old_files over audio_files[MAX_CACHE_SIZE:].
RECURSIVE RemoveOldFiles(_, _, _)
RemoveOldFiles(olds, m, a) ==
    IF olds = << >> THEN [meta |-> m, audio |-> a]
    ELSE LET old_file == Head(olds)
             metadata == LoadMetadata(m, old_file).value
             a2 == IF metadata # NoMetadata /\ metadata[1].audio_file \in a
                   THEN a \ {metadata[1].audio_file}
                   ELSE a
         IN  RemoveOldFiles(Tail(olds), Unlink(m, old_file), a2)

\* An eviction that ranks and counts only the records it can read and leaves
\* the others alone.
CleanupOldFilesRankingReadable(m, a) ==
    LET audio_files ==
            SortedByMtime(m, {i \in DOMAIN m : JsonParses(m[i].content)})
    IN  IF Len(audio_files) > MAX_CACHE_SIZE
        THEN RemoveOldFiles(
                 SubSeq(audio_files, MAX_CACHE_SIZE + 1, Len(audio_files)), m, a)
        ELSE [meta |-> m, audio |-> a]

\* AudioCache._cleanup_old_files.
CleanupOldFiles(m, a) ==
    LET audio_files == SortedByMtime(m, DOMAIN m)
    IN  IF Len(audio_files) > MAX_CACHE_SIZE
        THEN RemoveOldFiles(
                 SubSeq(audio_files, MAX_CACHE_SIZE + 1, Len(audio_files)), m, a)
        ELSE [meta |-> m, audio |-> a]

\* The loop of AudioCache.list_cached: the items appended, and the exception
\* that ends the loop early.
RECURSIVE LoadAll(_, _)
LoadAll(files, m) ==
    IF files = << >> THEN [listing |-> << >>, exc |-> None]
    ELSE LET metadata == LoadMetadata(m, Head(files))
             rest == LoadAll(Tail(files), m)
         IN  IF metadata.exc # None
             THEN [listing |-> << >>, exc |-> metadata.exc]
             ELSE [listing |-> metadata.value \o rest.listing, exc |-> rest.exc]

Reverse(s) == [k \in 1 .. Len(s) |-> s[Len(s) + 1 - k]]

\* AudioCache.list_cached: the list returned and the exception raised.
ListCachedOldestFirst(m) ==
    LET r == LoadAll(SortedByMtime(m, DOMAIN m), m)
    IN  [r EXCEPT !.listing = Reverse(@)]

ListCachedResult(m) == LoadAll(SortedByMtime(m, DOMAIN m), m)

ListCachedOf(m) == ListCachedResult(m).listing

\* AudioCache.get_by_id: the value returned and the exception raised.
GetByIdResult(m, cache_id) == LoadMetadata(m, cache_id)

GetByIdOf(m, cache_id) == GetByIdResult(m, cache_id).value

\* A play that starts the player without looking for the audio payload.
PlayOfWithoutExistsCheck(m, a, cache_id, afplay) ==
    IF LoadMetadata(m, cache_id).value = NoMetadata
    THEN [ret |-> "False", exc |-> None, calls |-> << >>]
    ELSE [ret |-> IF afplay = "ok" THEN "True" ELSE "False", exc |-> None,
          calls |-> << <<"afplay", "cache">> >>]

\* AudioCache.play: the value returned, the exception raised and the player
\* started.  subprocess.run raises CalledProcessError when afplay exits
\* non-zero and FileNotFoundError when there is no afplay.
PlayOf(m, a, cache_id, afplay) ==
    LET metadata == GetByIdOf(m, cache_id)
        started == << <<"afplay", "cache">> >>
    IN  IF metadata = NoMetadata
        THEN [ret |-> "False", exc |-> None, calls |-> << >>]
        ELSE IF metadata[1].audio_file \notin a
        THEN [ret |-> "False", exc |-> None, calls |-> << >>]
        ELSE IF afplay = "ok"
        THEN [ret |-> "True", exc |-> None, calls |-> started]
        ELSE IF afplay = "fail"
        THEN [ret |-> "False", exc |-> None, calls |-> started]
        ELSE [ret |-> None, exc |-> "FileNotFoundError", calls |-> started]

\* The files after open(metadata_file, 'w') and json.dump: the write may fail
\* before the file is opened, or after it was opened and truncated.
WriteFile(m, t, cache_id, content, write) ==
    IF write = "open_fails" THEN m
    ELSE [i \in DOMAIN m \cup {cache_id} |->
             IF i = cache_id
             THEN [mtime   |-> t,
                   content |-> IF write = "ok" THEN content ELSE Truncated]
             ELSE m[i]]

\* The dictionary AudioCache.save_metadata builds; datetime.now() reads t.
Metadata(t, cache_id, text, voice, format, providerName, instructions) ==
    [id |-> cache_id, timestamp |-> t, text |-> text, voice |-> voice,
     format |-> format, provider |-> providerName,
     instructions |-> instructions,
     audio_file |-> AudioName(cache_id, format)]

\* A save_metadata that runs the eviction pass itself after the write.
SaveMetadataOfEvicting(m, t, cache_id, text, voice, format, providerName, instructions, write) ==
    [meta |-> CleanupOldFiles(
                  WriteFile(m, t, cache_id,
                      JsonDump(Metadata(t, cache_id, text, voice, format,
                                        providerName, instructions)),
                      write), {}).meta,
     exc  |-> IF write = "ok" THEN None ELSE "OSError"]

\* AudioCache.save_metadata, on the files m at time t.
SaveMetadataOf(m, t, cache_id, text, voice, format, providerName, instructions, write) ==
    [meta |-> WriteFile(m, t, cache_id,
                  JsonDump(Metadata(t, cache_id, text, voice, format,
                                    providerName, instructions)),
                  write),
     exc  |-> IF write = "ok" THEN None ELSE "OSError"]

\* The invocations that may run at the same time on one cache directory.
Procs == {1, 2}

\* The locals of an invocation that has not started: at, the place in the
\* code; olds, the rest of audio_files[MAX_CACHE_SIZE:]; id, the cache_id
\* allocated; exc, the exception that ended it; alone, no other invocation
\* has run since this one started; evicting, its pass found more than
\* MAX_CACHE_SIZE files.
NotStarted ==
    [at |-> "start", olds |-> << >>, id |-> 0, exc |-> None, alone |-> FALSE,
     evicting |-> FALSE]

\* audio_files[MAX_CACHE_SIZE:] of _cleanup_old_files, empty when the `if`
\* finds no more than MAX_CACHE_SIZE files.
OldFilesKeepingOneMore(m) ==
    LET audio_files == SortedByMtime(m, DOMAIN m)
    IN  IF Len(audio_files) > MAX_CACHE_SIZE + 1
        THEN SubSeq(audio_files, MAX_CACHE_SIZE + 2, Len(audio_files))
        ELSE << >>

OldFiles(m) ==
    LET audio_files == SortedByMtime(m, DOMAIN m)
    IN  IF Len(audio_files) > MAX_CACHE_SIZE
        THEN SubSeq(audio_files, MAX_CACHE_SIZE + 1, Len(audio_files))
        ELSE << >>

\* The audio payloads after the first half of one iteration of the loop of
\* _cleanup_old_files: the payload the record of old_file names is unlinked
\* if the record can be read and the payload exists.
UnlinkAudioSweeping(m, a, old_file) ==
    LET metadata == LoadMetadata(m, old_file).value
    IN  {f \in a : /\ f[1] \in DOMAIN m
                   /\ metadata # NoMetadata => f # metadata[1].audio_file}

UnlinkAudioOf(m, a, old_file) ==
    LET metadata == LoadMetadata(m, old_file).value
    IN  IF metadata # NoMetadata /\ metadata[1].audio_file \in a
        THEN a \ {metadata[1].audio_file}
        ELSE a

----------------------------------------------------------------------------
(* The cache directories an invocation may find.                           *)

\* A record as save_metadata wrote it in an earlier invocation.
OldRecord(id, mtime) ==
    Metadata(mtime, id, "hello", None, "mp3", "MacOSsayProvider", None)

\* The records 1 .. n exist, the one with the smallest id being the newest.
\* bad: the ids whose record was left incomplete by a failed write; gone: the
\* ids whose audio payload is missing.
InitialMeta(n, bad) ==
    [i \in 1 .. n |->
        [mtime   |-> NumIds + 1 - i,
         content |-> IF i \in bad THEN Truncated
                     ELSE JsonDump(OldRecord(i, NumIds + 1 - i))]]

Init ==
    /\ \E n \in 0 .. NumIds :
       \E bad \in {b \in SUBSET (1 .. n) : Cardinality(b) <= 1} :
       \E gone \in {g \in SUBSET (1 .. n) : Cardinality(g) <= 1} :
          /\ bad = {} \/ gone = {}
          /\ meta = InitialMeta(n, bad)
          /\ audio = {AudioName(i, "mp3") : i \in (1 .. n) \ gone}
    /\ outFiles = {}
    /\ tmpFiles = 0
    /\ clock = NumIds + 1
    /\ pc = "start"
    /\ provider = None
    /\ last = NoCall
    /\ procs = [p \in Procs |-> NotStarted]

\* A call that writes a file takes one tick of the clock.
CanWrite == clock <= NumIds + MaxWrites

----------------------------------------------------------------------------
(* The calls on an AudioCache.                                             *)

\* AudioCache.__init__: mkdir, then the eviction pass.
AudioCacheInit ==
    /\ pc = "start"
    /\ LET r == CleanupOldFiles(meta, audio)
       IN  /\ meta' = r.meta
           /\ audio' = r.audio
    /\ pc' = "cache"
    /\ last' = WritingCall("AudioCache")
    /\ UNCHANGED <<procs, outFiles, tmpFiles, clock, provider>>

\* AudioCache.generate_cache_path: uuid4 draws the id; nothing is looked up
\* and no file is created.
GenerateCachePath ==
    /\ pc \in {"cache", "service"}
    /\ \E cache_id \in Ids :
          last' = [Call("generate_cache_path") EXCEPT
                      !.id = cache_id, !.format = "mp3"]
    /\ UNCHANGED <<procs, meta, audio, outFiles, tmpFiles, clock, pc, provider>>

\* A caller of save_metadata passes the class name of its provider.
CallerProviderName == IF provider = None THEN "MacOSsayProvider" ELSE provider

SaveMetadata ==
    /\ pc \in {"cache", "service"}
    /\ CanWrite
    /\ \E cache_id \in Ids, req \in Requests, write \in WriteOutcomes :
          LET w == SaveMetadataOf(meta, clock, cache_id, req.text, req.voice,
                       IF req.format = None THEN "mp3" ELSE req.format,
                       CallerProviderName, req.instructions, write)
          IN  /\ meta' = w.meta
              /\ last' = [WritingCall("save_metadata") EXCEPT
                             !.id = cache_id, !.text = req.text,
                             !.voice = req.voice,
                             !.format = IF req.format = None THEN "mp3"
                                        ELSE req.format,
                             !.providerName = CallerProviderName,
                             !.instructions = req.instructions,
                             !.exc = w.exc]
    /\ clock' = clock + 1
    /\ UNCHANGED <<procs, audio, outFiles, tmpFiles, pc, provider>>

ListCached ==
    /\ pc \in {"cache", "service"}
    /\ last' = [Call("list_cached") EXCEPT
                    !.listing = ListCachedResult(meta).listing,
                    !.exc = ListCachedResult(meta).exc]
    /\ UNCHANGED <<procs, meta, audio, outFiles, tmpFiles, clock, pc, provider>>

GetById ==
    /\ pc \in {"cache", "service"}
    /\ \E cache_id \in Ids :
          last' = [Call("get_by_id") EXCEPT
                      !.id = cache_id,
                      !.found = GetByIdResult(meta, cache_id).value,
                      !.exc = GetByIdResult(meta, cache_id).exc]
    /\ UNCHANGED <<procs, meta, audio, outFiles, tmpFiles, clock, pc, provider>>

Play ==
    /\ pc \in {"cache", "service"}
    /\ \E cache_id \in Ids, afplay \in PlayerOutcomes :
          LET r == PlayOf(meta, audio, cache_id, afplay)
          IN  last' = [Call("play") EXCEPT
                          !.id = cache_id, !.ret = r.ret, !.exc = r.exc,
                          !.calls = r.calls]
    /\ UNCHANGED <<procs, meta, audio, outFiles, tmpFiles, clock, pc, provider>>

\* The process ends; the next invocation starts on the same directory.
Exit ==
    /\ pc # "start"
    /\ pc' = "start"
    /\ provider' = None
    /\ last' = Call("exit")
    /\ UNCHANGED <<procs, meta, audio, outFiles, tmpFiles, clock>>

----------------------------------------------------------------------------
(* The providers.  A result names the exception raised (None for a normal  *)
(* return), whether the target file was written, whether a temporary file  *)
(* was left behind, and the processes and requests that were started.      *)

ProviderResult(exc, wrote, leaked, calls) ==
    [exc |-> exc, wrote |-> wrote, leaked |-> leaked, calls |-> calls]

\* OpenAITTSProvider.synthesize with the checks of the voice and the format
\* made after the request was sent.
OpenAISynthesizeLateValidation(hasTarget, voice, response_format, backend, afplay, ffplay) ==
    LET v == IF voice = None THEN DEFAULT_VOICE ELSE voice
        f == IF response_format = None THEN DEFAULT_FORMAT ELSE response_format
        request == << <<"backend", f>> >>
    IN  IF backend \in {"auth", "error"}
        THEN [exc |-> "RuntimeError", wrote |-> FALSE, leaked |-> FALSE,
              calls |-> request]
        ELSE IF v \notin VOICES \/ f \notin AUDIO_FORMATS
        THEN [exc |-> "ValueError", wrote |-> FALSE, leaked |-> FALSE,
              calls |-> request]
        ELSE [exc |-> None, wrote |-> hasTarget, leaked |-> FALSE,
              calls |-> request]

\* OpenAITTSProvider.synthesize.  backend: "auth" and "error" fail the request,
\* "partial" fails while stream_to_file writes, "ok" delivers the audio.
OpenAISynthesize(hasTarget, voice, response_format, backend, afplay, ffplay) ==
    LET v == IF voice = None THEN DEFAULT_VOICE ELSE voice
        f == IF response_format = None THEN DEFAULT_FORMAT ELSE response_format
        request == << <<"backend", f>> >>
        players ==
            IF f \in AfplayFormats THEN << <<"afplay", "tmp">> >>
            ELSE IF ffplay = "ok" THEN << <<"ffplay", "tmp">> >>
            ELSE << <<"ffplay", "tmp">>, <<"afplay", "tmp">> >>
        played ==
            IF f \in AfplayFormats THEN afplay = "ok"
            ELSE ffplay = "ok" \/ afplay = "ok"
    IN  IF v \notin VOICES
        THEN ProviderResult("ValueError", FALSE, FALSE, << >>)
        ELSE IF f \notin AUDIO_FORMATS
        THEN ProviderResult("ValueError", FALSE, FALSE, << >>)
        ELSE IF backend \in {"auth", "error"}
        THEN ProviderResult("RuntimeError", FALSE, FALSE, request)
        ELSE IF hasTarget
        THEN ProviderResult(IF backend = "ok" THEN None ELSE "RuntimeError",
                            TRUE, FALSE, request)
        ELSE IF backend = "partial"
        THEN ProviderResult("RuntimeError", FALSE, TRUE, request)
        ELSE ProviderResult(IF played THEN None ELSE "RuntimeError",
                            FALSE, FALSE, request \o players)

\* The text of the ValueError of OpenAITTSProvider.synthesize: the label, the
\* rejected value and the members of the set that ', '.join lists.
ValueErrorMessage(voice, response_format) ==
    LET v == IF voice = None THEN DEFAULT_VOICE ELSE voice
        f == IF response_format = None THEN DEFAULT_FORMAT ELSE response_format
    IN  IF v \notin VOICES THEN <<"Invalid voice", v, VOICES>>
        ELSE IF f \notin AUDIO_FORMATS THEN <<"Invalid format", f, AUDIO_FORMATS>>
        ELSE << >>

\* MacOSsayProvider.synthesize: voice and target are handed to `say`.
MacOSSynthesize(hasTarget, backend) ==
    IF backend = "ok"
    THEN ProviderResult(None, hasTarget, FALSE, << <<"say", "">> >>)
    ELSE ProviderResult("RuntimeError", FALSE, FALSE, << <<"say", "">> >>)

\* self.provider.synthesize(...)
ProviderSynthesize(prov, hasTarget, voice, response_format, backend, afplay, ffplay) ==
    IF prov = "OpenAITTSProvider"
    THEN OpenAISynthesize(hasTarget, voice, response_format, backend, afplay, ffplay)
    ELSE MacOSSynthesize(hasTarget, backend)

BackendOutcomes(prov) ==
    IF prov = "OpenAITTSProvider" THEN OpenAIOutcomes ELSE SayOutcomes

----------------------------------------------------------------------------
(* TTSService.                                                             *)

\* A selection that trusts a credential without the check of models.list().
SelectProviderWithoutCheck(apiKey, checkOk) ==
    IF apiKey THEN "OpenAITTSProvider" ELSE "MacOSsayProvider"

\* TTSService._select_provider.
SelectProvider(apiKey, checkOk) ==
    IF apiKey /\ checkOk THEN "OpenAITTSProvider" ELSE "MacOSsayProvider"

\* TTSService.__init__.
TTSServiceInit ==
    /\ pc = "start"
    /\ \E apiKey \in BOOLEAN, checkOk \in BOOLEAN :
          /\ provider' = SelectProvider(apiKey, checkOk)
          /\ last' = [WritingCall("TTSService") EXCEPT
                         !.apiKey = apiKey, !.checkOk = checkOk]
    /\ LET r == CleanupOldFiles(meta, audio)
       IN  /\ meta' = r.meta
           /\ audio' = r.audio
    /\ pc' = "service"
    /\ UNCHANGED <<procs, outFiles, tmpFiles, clock>>

\* TTSService.play_cached.  cache_id is 0 for a call without an id; selected
\* is the id at the head of the line fzf prints.  The value of cache.play,
\* the exception raised and the processes started.
PlayCachedOf(m, a, cache_id, fzf, selected, afplay) ==
    LET cached_items == ListCachedOf(m)
        nothing == [ret |-> None, exc |-> None, calls |-> << >>]
        picker == << <<"fzf", "">> >>
        r == PlayOf(m, a, IF cache_id # 0 THEN cache_id ELSE selected, afplay)
    IN  IF cache_id # 0 THEN r
        ELSE IF fzf = "absent" THEN nothing
        ELSE IF cached_items = << >> THEN nothing
        ELSE IF fzf \in {"error", "cancelled", "empty"}
        THEN [nothing EXCEPT !.calls = picker]
        ELSE [r EXCEPT !.calls = picker \o @]

\* The ids fzf can print: those of the lines play_cached gave it.
Selectable(m) ==
    IF ListCachedOf(m) = << >> THEN {0}
    ELSE {ListCachedOf(m)[k].id : k \in 1 .. Len(ListCachedOf(m))}

\* TTSService.play_cached, called by a user of the class.
PlayCached ==
    /\ pc = "service"
    /\ \E cache_id \in {0} \cup Ids, fzf \in FzfOutcomes :
       \E selected \in IF cache_id = 0 /\ fzf = "selected"
                       THEN Selectable(meta) ELSE {0} :
       \E afplay \in IF cache_id # 0 \/ fzf = "selected"
                     THEN PlayerOutcomes ELSE {"ok"} :
          LET r == PlayCachedOf(meta, audio, cache_id, fzf, selected, afplay)
          IN  last' = [Call("play_cached") EXCEPT
                          !.id = cache_id, !.fzf = fzf, !.selected = selected,
                          !.ret = r.ret, !.exc = r.exc, !.calls = r.calls]
    /\ UNCHANGED <<procs, meta, audio, outFiles, tmpFiles, clock, pc, provider>>

\* The branch of TTSService.synthesize that goes through the cache:
\* `elif cache:` after `if output_file:`.
UsesCacheIgnoringOutput(output_file, cache) == cache

UsesCache(output_file, cache) == output_file = None /\ cache

\* TTSService.synthesize on the current state: the files afterwards, the
\* exception raised, the calls made and the id allocated (0 for none).
\* cache_id is the id uuid4 draws; backend, afplay, ffplay and write are what
\* the backend, the players and the metadata write do.
ServiceSynthesize(req, output_file, cache, cache_id, backend, afplay, ffplay, write) ==
    LET voice == IF req.voice = None /\ provider = "OpenAITTSProvider"
                 THEN DEFAULT_VOICE ELSE req.voice
        fmt == IF req.format = None THEN "mp3" ELSE req.format
        r == ProviderSynthesize(provider, output_file # None \/ cache, voice,
                                req.format, backend, afplay, ffplay)
        base == [meta |-> meta, audio |-> audio, outFiles |-> outFiles,
                 tmpFiles |-> tmpFiles, exc |-> r.exc, id |-> 0,
                 calls |-> << >>]
    IN  IF output_file # None /\ ~UsesCache(output_file, cache)
        THEN [base EXCEPT
                 !.outFiles = IF r.wrote THEN @ \cup {output_file} ELSE @,
                 !.calls = << <<"provider.synthesize", "output">> >> \o r.calls]
        ELSE IF UsesCache(output_file, cache)
        THEN LET synthesized ==
                     [base EXCEPT
                         !.id = cache_id,
                         !.audio = IF r.wrote
                                   THEN @ \cup {AudioName(cache_id, fmt)} ELSE @,
                         !.calls = << <<"generate_cache_path", fmt>>,
                                      <<"provider.synthesize", "cache">> >>
                                   \o r.calls]
                 w == SaveMetadataOf(meta, clock, cache_id, req.text, voice, fmt,
                                     provider, req.instructions, write)
             IN  IF r.exc # None THEN synthesized
                 ELSE IF afplay # "ok"
                 THEN [synthesized EXCEPT
                          !.exc = IF afplay = "fail" THEN "CalledProcessError"
                                  ELSE "FileNotFoundError",
                          !.calls = @ \o << <<"afplay", "cache">> >>]
                 ELSE [synthesized EXCEPT
                          !.meta = w.meta,
                          !.exc = w.exc,
                          !.calls = @ \o << <<"afplay", "cache">>,
                                            <<"save_metadata", "">> >>]
        ELSE [base EXCEPT
                 !.tmpFiles = IF r.leaked THEN @ + 1 ELSE @,
                 !.calls = << <<"provider.synthesize", "none">> >> \o r.calls]

\* One call of TTSService.synthesize with every outcome of its environment;
\* viaMain: the call is the one main() makes inside its try block, after
\* which the process exits.
SynthesizeCall(req, output_file, cache, viaMain) ==
    \E cache_id \in IF UsesCache(output_file, cache) THEN Ids ELSE {0} :
    \E backend \in BackendOutcomes(provider) :
    \E afplay \in IF backend = "ok" /\ (output_file = None \/ UsesCache(output_file, cache))
                  THEN PlayerOutcomes ELSE {"ok"} :
    \E ffplay \in IF backend = "ok" /\ output_file = None /\ ~cache
                  THEN PlayerOutcomes ELSE {"ok"} :
    \E write \in IF backend = "ok" /\ afplay = "ok" /\ UsesCache(output_file, cache)
                 THEN WriteOutcomes ELSE {"ok"} :
       LET s == ServiceSynthesize(req, output_file, cache, cache_id, backend,
                                  afplay, ffplay, write)
       IN  /\ meta' = s.meta
           /\ audio' = s.audio
           /\ outFiles' = s.outFiles
           /\ tmpFiles' = s.tmpFiles
           /\ clock' = clock + 1
           /\ last' = [WritingCall(IF viaMain THEN "main" ELSE "synthesize") EXCEPT
                          !.id = s.id, !.text = req.text, !.voice = req.voice,
                          !.instructions = req.instructions,
                          !.format = req.format, !.output_file = output_file,
                          !.cache = cache, !.providerName = provider,
                          !.exc = s.exc, !.calls = s.calls,
                          !.exit = IF ~viaMain THEN None
                                   ELSE IF s.exc = None THEN "0"
                                   ELSE IF s.exc = "RuntimeError" THEN "1"
                                   ELSE "traceback"]

\* TTSService.synthesize, called by a user of the class.
Synthesize ==
    /\ pc = "service"
    /\ CanWrite
    /\ \E req \in Requests, output_file \in OutputArgs, cache \in BOOLEAN :
          SynthesizeCall(req, output_file, cache, FALSE)
    /\ UNCHANGED <<procs, pc, provider>>

\* OpenAITTSProvider.synthesize, called on the provider of the service by a
\* user of the class, with the arguments as the caller gives them.
OpenAIProviderSynthesize ==
    /\ pc = "service"
    /\ provider = "OpenAITTSProvider"
    /\ CanWrite
    /\ \E req \in Requests, output_file \in OutputArgs :
       \E backend \in OpenAIOutcomes :
       \E afplay \in IF backend = "ok" /\ output_file = None
                     THEN PlayerOutcomes ELSE {"ok"} :
       \E ffplay \in IF backend = "ok" /\ output_file = None
                     THEN PlayerOutcomes ELSE {"ok"} :
          LET r == OpenAISynthesize(output_file # None, req.voice, req.format,
                                    backend, afplay, ffplay)
          IN  /\ outFiles' = IF r.wrote THEN outFiles \cup {output_file}
                             ELSE outFiles
              /\ tmpFiles' = IF r.leaked THEN tmpFiles + 1 ELSE tmpFiles
              /\ last' = [WritingCall("provider.synthesize") EXCEPT
                             !.text = req.text, !.voice = req.voice,
                             !.instructions = req.instructions,
                             !.format = req.format,
                             !.output_file = output_file,
                             !.providerName = provider,
                             !.exc = r.exc, !.calls = r.calls,
                             !.msg = IF r.exc = "ValueError"
                                     THEN ValueErrorMessage(req.voice, req.format)
                                     ELSE << >>]
    /\ clock' = clock + 1
    /\ UNCHANGED <<procs, meta, audio, pc, provider>>

----------------------------------------------------------------------------
(* main().                                                                 *)

\* argparse gives --format the default "mp3" and accepts only the formats of
\* AUDIO_FORMATS.
MainRequests ==
    { [r EXCEPT !.format = IF @ = None THEN "mp3" ELSE @] :
        r \in {q \in Requests : q.format \in AUDIO_FORMATS \cup {None}} }

\* main(), from "Synthesize speech" on: tts.synthesize inside
\* try/except RuntimeError, then the end of the process.
MainSynthesize ==
    /\ pc = "service"
    /\ CanWrite
    /\ \E req \in MainRequests, output_file \in OutputArgs, cache \in BOOLEAN :
          SynthesizeCall(req, output_file, cache, TRUE)
    /\ pc' = "start"
    /\ provider' = None
    /\ UNCHANGED procs

\* main() with --prev: AudioCache(), list_cached, play of the first entry.
MainPrev ==
    /\ pc = "start"
    /\ \E afplay \in PlayerOutcomes :
          LET c == CleanupOldFiles(meta, audio)
              cached_items == ListCachedOf(c.meta)
              latest == Head(cached_items)
              r == PlayOf(c.meta, c.audio, latest.id, afplay)
          IN  /\ meta' = c.meta
              /\ audio' = c.audio
              /\ last' = IF cached_items = << >>
                         THEN [WritingCall("main_prev") EXCEPT !.exit = "0"]
                         ELSE [WritingCall("main_prev") EXCEPT
                                  !.id = latest.id, !.ret = r.ret,
                                  !.exc = r.exc, !.calls = r.calls,
                                  !.listing = cached_items,
                                  !.exit = IF r.exc = None THEN "0"
                                           ELSE "traceback"]
    /\ UNCHANGED <<procs, outFiles, tmpFiles, clock, pc, provider>>

\* main() with --list-cached: AudioCache(), list_cached, print.
MainListCached ==
    /\ pc = "start"
    /\ LET c == CleanupOldFiles(meta, audio)
       IN  /\ meta' = c.meta
           /\ audio' = c.audio
           /\ last' = [WritingCall("main_list_cached") EXCEPT
                          !.listing = ListCachedOf(c.meta), !.exit = "0"]
    /\ UNCHANGED <<procs, outFiles, tmpFiles, clock, pc, provider>>

\* main() with --play-cached [ID]: AudioCache(), list_cached, and for a
\* listing that is not empty play_cached on a TTSService built by __new__.
MainPlayCached ==
    /\ pc = "start"
    /\ \E cache_id \in {0} \cup Ids, fzf \in FzfOutcomes :
       \E selected \in IF cache_id = 0 /\ fzf = "selected"
                       THEN Selectable(CleanupOldFiles(meta, audio).meta)
                       ELSE {0} :
       \E afplay \in IF cache_id # 0 \/ fzf = "selected"
                     THEN PlayerOutcomes ELSE {"ok"} :
          LET c == CleanupOldFiles(meta, audio)
              cached_items == ListCachedOf(c.meta)
              r == PlayCachedOf(c.meta, c.audio, cache_id, fzf, selected, afplay)
          IN  /\ meta' = c.meta
              /\ audio' = c.audio
              /\ last' = IF cached_items = << >>
                         THEN [WritingCall("main_play_cached") EXCEPT
                                  !.id = cache_id, !.exit = "0"]
                         ELSE [WritingCall("main_play_cached") EXCEPT
                                  !.id = cache_id, !.fzf = fzf,
                                  !.selected = selected,
                                  !.ret = r.ret, !.exc = r.exc,
                                  !.calls = r.calls,
                                  !.listing = cached_items,
                                  !.exit = IF r.exc = None THEN "0"
                                           ELSE "traceback"]
    /\ UNCHANGED <<procs, outFiles, tmpFiles, clock, pc, provider>>

----------------------------------------------------------------------------
(* Invocations step by step.  An invocation p is one run of the program    *)
(* that speaks a text through the cache: AudioCache.__init__ with every     *)
(* file operation of the eviction pass a step of its own, then the cache    *)
(* branch of TTSService.synthesize.  Between two steps of p the other       *)
(* invocations may take steps, and p may be stopped.                        *)

Running(p) == procs[p].at # "start"

\* _cleanup_old_files up to the loop: glob, stat, sort, slice.  `last` keeps
\* the directory as a pass that starts alone found it.
CleanupStart(p) ==
    /\ procs[p].at = "start"
    /\ LET olds == OldFiles(meta)
       IN  procs' = [q \in Procs |->
                        IF q = p
                        THEN [NotStarted EXCEPT
                                 !.at = IF olds = << >> THEN "ready" ELSE "audio",
                                 !.olds = olds,
                                 !.evicting = olds # << >>,
                                 !.alone = \A o \in Procs \ {p} : ~Running(o)]
                        ELSE [procs[q] EXCEPT !.alone = FALSE]]
    /\ last' = IF \A o \in Procs \ {p} : ~Running(o)
               THEN [WritingCall("_cleanup_old_files") EXCEPT !.id = p]
               ELSE Call("_cleanup_old_files")
    /\ UNCHANGED <<meta, audio, outFiles, tmpFiles, clock, pc, provider>>

\* One iteration of the loop, first half: _load_metadata(old_file) and, for a
\* record that could be read, the unlink of the audio payload if it exists.
CleanupUnlinkAudio(p) ==
    /\ procs[p].at = "audio"
    /\ audio' = UnlinkAudioOf(meta, audio, Head(procs[p].olds))
    /\ procs' = [procs EXCEPT ![p].at = "record"]
    /\ UNCHANGED <<meta, outFiles, tmpFiles, clock, pc, provider, last>>

\* One iteration of the loop, second half: old_file.unlink(), which raises
\* FileNotFoundError when the file is no longer there.
CleanupUnlinkRecord(p) ==
    /\ procs[p].at = "record"
    /\ LET old_file == Head(procs[p].olds)
           rest == Tail(procs[p].olds)
       IN  IF old_file \in DOMAIN meta
           THEN /\ meta' = Unlink(meta, old_file)
                /\ procs' = [procs EXCEPT
                                ![p].olds = rest,
                                ![p].at = IF rest = << >> THEN "ready"
                                          ELSE "audio"]
           ELSE /\ meta' = meta
                /\ procs' = [procs EXCEPT
                                ![p].at = "failed",
                                ![p].exc = "FileNotFoundError"]
    /\ UNCHANGED <<audio, outFiles, tmpFiles, clock, pc, provider, last>>

CanCommit == clock <= NumIds + MaxCommits

\* The cache branch of synthesize up to the playback: generate_cache_path
\* draws the id and the provider writes the audio payload at the path.
SynthesizeToCache(p) ==
    /\ procs[p].at = "ready"
    /\ CanCommit
    /\ \E cache_id \in Ids :
          /\ audio' = audio \cup {AudioName(cache_id, "mp3")}
          /\ procs' = [procs EXCEPT ![p].at = "synthesized", ![p].id = cache_id]
    /\ UNCHANGED <<meta, outFiles, tmpFiles, clock, pc, provider, last>>

\* The rest of the cache branch: afplay succeeds and save_metadata writes
\* the record.
CommitMetadata(p) ==
    /\ procs[p].at = "synthesized"
    /\ CanCommit
    /\ meta' = SaveMetadataOf(meta, clock, procs[p].id, "hello", None, "mp3",
                              "MacOSsayProvider", None, "ok").meta
    /\ clock' = clock + 1
    /\ procs' = [procs EXCEPT ![p].at = "done"]
    /\ UNCHANGED <<audio, outFiles, tmpFiles, pc, provider, last>>

\* The invocation ends: it returned, it died of its exception, or it was
\* stopped where it stood.
Stop(p) ==
    /\ Running(p)
    /\ procs' = [procs EXCEPT ![p] = NotStarted]
    /\ UNCHANGED <<meta, audio, outFiles, tmpFiles, clock, pc, provider, last>>

InvocationStep(p) ==
    \/ CleanupStart(p)
    \/ CleanupUnlinkAudio(p)
    \/ CleanupUnlinkRecord(p)
    \/ SynthesizeToCache(p)
    \/ CommitMetadata(p)
    \/ Stop(p)

----------------------------------------------------------------------------
(* Specifications.                                                         *)

\* Successive processes that use an AudioCache: the calls of its methods and
\* the invocations of main() that only read the cache.
NextCache ==
    \/ AudioCacheInit
    \/ GenerateCachePath
    \/ SaveMetadata
    \/ ListCached
    \/ GetById
    \/ Play
    \/ MainPrev
    \/ MainListCached
    \/ Exit

SpecCache == Init /\ [][NextCache]_vars

\* Successive processes that build a TTSService and call synthesize.
NextService ==
    \/ TTSServiceInit
    \/ Synthesize
    \/ OpenAIProviderSynthesize
    \/ Exit

SpecService == Init /\ [][NextService]_vars

\* Successive invocations of the program: main().
Next ==
    \/ TTSServiceInit
    \/ MainSynthesize
    \/ MainPrev
    \/ MainListCached
    \/ Exit

Spec == Init /\ [][Next]_vars

\* Successive processes that replay cached audio: play_cached called on a
\* TTSService, and the invocations of main() with --play-cached.
NextReplay ==
    \/ TTSServiceInit
    \/ PlayCached
    \/ MainPlayCached
    \/ Exit

SpecReplay == Init /\ [][NextReplay]_vars

\* Invocations one after the other, step by step: one is running at a time.
NextSequential == InvocationStep(1)

SpecSequential == Init /\ [][NextSequential]_vars

\* Two invocations interleaved on the same directory, with no locking.
NextConcurrent == \E p \in Procs : InvocationStep(p)

SpecConcurrent == Init /\ [][NextConcurrent]_vars


----------------------------------------------------------------------------
(* Properties.                                                             *)

Min(a, b) == IF a < b THEN a ELSE b

\* The calls that construct an AudioCache and so run the eviction pass.
ConstructionOps ==
    {"AudioCache", "TTSService", "main_prev", "main_list_cached",
     "main_play_cached"}

Constructed == last.op \in ConstructionOps

\* The ids whose metadata record the last call removed.
Evicted == DOMAIN last.metaBefore \ DOMAIN meta

WellFormed(m, i) == i \in DOMAIN m /\ JsonParses(m[i].content)

\* The audio payloads of entry i in the files (m, a): the file its record
\* names, or, when the record cannot be read, the files that share its id.
Payload(m, a, i) ==
    IF WellFormed(m, i)
    THEN {JsonLoad(m[i].content).audio_file} \cap a
    ELSE {f \in a : f[1] = i}

\* C1. Bounded retention: right after the construction of an AudioCache on a
\* directory of n metadata records, min(n, MAX_CACHE_SIZE) records are left,
\* unchanged, each of them modified later than every record that was removed,
\* and the audio payload named by a removed readable record is gone.
BoundedRetention ==
    Constructed =>
        /\ Cardinality(DOMAIN meta) =
               Min(Cardinality(DOMAIN last.metaBefore), MAX_CACHE_SIZE)
        /\ \A i \in DOMAIN meta :
              /\ i \in DOMAIN last.metaBefore
              /\ meta[i] = last.metaBefore[i]
              /\ \A j \in Evicted :
                    last.metaBefore[j].mtime < last.metaBefore[i].mtime
        /\ \A j \in Evicted :
              WellFormed(last.metaBefore, j) =>
                  JsonLoad(last.metaBefore[j].content).audio_file \notin audio

\* A cache of MAX_CACHE_SIZE entries got one more entry in this run and was
\* constructed again: the new entry and all but the oldest are left.
BoundedRetentionWitness ==
    /\ last.op = "AudioCache"
    /\ Cardinality(DOMAIN last.metaBefore) = MAX_CACHE_SIZE + 1
    /\ \E i \in DOMAIN meta : meta[i].mtime > NumIds
    /\ \E j \in Evicted :
          /\ WellFormed(last.metaBefore, j)
          /\ Payload(last.metaBefore, last.audioBefore, j) # {}
    /\ Cardinality(DOMAIN meta) = MAX_CACHE_SIZE

\* C2. Eviction pairs cleanup: every audio payload that an evicted entry had
\* before the pass is gone after it, also for an entry whose record is
\* unreadable.
EvictionPairsCleanup ==
    Constructed =>
        \A j \in Evicted :
            Payload(last.metaBefore, last.audioBefore, j) \cap audio = {}

\* C3. Direct file output bypasses the cache: synthesize with an output file
\* hands that target to the provider and, whatever the cache flag, leaves the
\* metadata records and the audio payloads of the cache as they were,
\* allocates no slot, writes no metadata and starts no player.
DirectFileOutputBypassesCache ==
    (last.op = "synthesize" /\ last.output_file # None) =>
        /\ meta = last.metaBefore
        /\ audio = last.audioBefore
        /\ last.id = 0
        /\ last.calls # << >>
        /\ last.calls[1] = <<"provider.synthesize", "output">>
        /\ \A k \in 1 .. Len(last.calls) :
              last.calls[k][1] \notin
                  {"generate_cache_path", "save_metadata", "afplay", "ffplay"}
        /\ last.exc = None => last.output_file \in outFiles

DirectFileOutputWitness ==
    /\ last.op = "synthesize"
    /\ last.output_file # None
    /\ last.cache
    /\ last.exc = None
    /\ last.output_file \in outFiles \ last.outBefore
    /\ DOMAIN meta # {}

\* C4. Cache-then-play creates one well-formed entry: a successful synthesize
\* without output file and with cache = true adds exactly one metadata record;
\* its text is the input text, its audio_file is <id>.<format> and that audio
\* payload exists.
CacheThenPlayAddsOneEntry ==
    (last.op = "synthesize" /\ last.output_file = None /\ last.cache
        /\ last.exc = None) =>
        /\ DOMAIN meta \ DOMAIN last.metaBefore = {last.id}
        /\ \A i \in DOMAIN last.metaBefore : meta[i] = last.metaBefore[i]
        /\ WellFormed(meta, last.id)
        /\ LET md == JsonLoad(meta[last.id].content)
               fmt == IF last.format = None THEN "mp3" ELSE last.format
           IN  /\ md.text = last.text
               /\ md.audio_file = AudioName(last.id, fmt)
               /\ md.audio_file \in audio

\* C5. Id uniqueness under allocation: an id that generate_cache_path returns
\* differs from the id its previous call in the same process returned, and
\* from the id of every entry retained in the cache directory.
IdUniquenessUnderAllocation ==
    [][last'.op = "generate_cache_path" =>
          /\ last'.id \notin DOMAIN meta'
          /\ last.op = "generate_cache_path" => last'.id # last.id]_vars

\* C6. Listing order: list_cached returns the well-formed entries, each once,
\* newest first by the modification time of their metadata records; after a
\* commit the committed entry is first, and --prev plays the first entry.
ListingOrder ==
    LET l == ListCachedOf(meta)
    IN  /\ \A k \in 1 .. Len(l) : WellFormed(meta, l[k].id)
        /\ \A i \in DOMAIN meta :
              WellFormed(meta, i) =>
                  Cardinality({k \in 1 .. Len(l) : l[k].id = i}) = 1
        /\ \A k \in 1 .. Len(l) - 1 :
              meta[l[k].id].mtime > meta[l[k + 1].id].mtime
        /\ (last.op = "save_metadata" /\ last.exc = None) =>
              /\ l # << >>
              /\ l[1].id = last.id
              /\ l[1].text = last.text
        /\ last.op = "list_cached" => last.listing = l
        /\ (last.op = "main_prev" /\ l # << >>) => last.id = l[1].id

ListingOrderWitness ==
    /\ last.op = "save_metadata"
    /\ last.exc = None
    /\ Len(ListCachedOf(meta)) >= 3
    /\ ListCachedOf(meta)[1].id = last.id
    /\ \E i \in DOMAIN meta : i < last.id

\* C7. Commit/lookup round trip: after save_metadata, get_by_id of the same id
\* returns a record with the id, text, voice, format, provider and
\* instructions that were committed and with audio_file = <id>.<format>.
CommitLookupRoundTrip ==
    (last.op = "save_metadata" /\ last.exc = None) =>
        /\ GetByIdResult(meta, last.id).exc = None
        /\ GetByIdOf(meta, last.id) # NoMetadata
        /\ LET md == GetByIdOf(meta, last.id)[1]
           IN  /\ md.id = last.id
               /\ md.text = last.text
               /\ md.voice = last.voice
               /\ md.format = last.format
               /\ md.provider = last.providerName
               /\ md.instructions = last.instructions
               /\ md.audio_file = AudioName(last.id, last.format)

CommitLookupRoundTripWitness ==
    /\ last.op = "save_metadata"
    /\ last.exc = None
    /\ last.voice = None
    /\ last.instructions # None
    /\ GetByIdOf(meta, last.id) # NoMetadata

\* C8. Malformed-record tolerance: for a metadata file with invalid content
\* get_by_id returns None without raising; list_cached raises nothing, skips
\* that file and still returns every valid record of the directory.
MalformedRecordTolerance ==
    /\ ListCachedResult(meta).exc = None
    /\ \A i \in DOMAIN meta :
          /\ GetByIdResult(meta, i).exc = None
          /\ ~JsonParses(meta[i].content) =>
                /\ GetByIdOf(meta, i) = NoMetadata
                /\ \A k \in 1 .. Len(ListCachedOf(meta)) :
                      ListCachedOf(meta)[k].id # i
          /\ JsonParses(meta[i].content) =>
                \E k \in 1 .. Len(ListCachedOf(meta)) :
                    ListCachedOf(meta)[k] = JsonLoad(meta[i].content)
    /\ last.op \in {"list_cached", "get_by_id"} => last.exc = None

MalformedRecordWitness ==
    /\ last.op = "list_cached"
    /\ \E i \in DOMAIN meta : ~JsonParses(meta[i].content)
    /\ Len(last.listing) >= 2
    /\ Len(last.listing) < Cardinality(DOMAIN meta)

\* C9. play never throws: AudioCache.play raises nothing and returns True or
\* False, True only when the entry was found and its audio payload exists.
PlayNeverThrows ==
    last.op = "play" =>
        /\ last.exc = None
        /\ last.ret \in {"True", "False"}
        /\ last.ret = "True" =>
              /\ WellFormed(meta, last.id)
              /\ JsonLoad(meta[last.id].content).audio_file \in audio

\* C10. Failure propagation: every failure of a speak request ends main()
\* with the one-line diagnostic and exit status 1 of its except clause; no
\* exception leaves main().
FailurePropagation ==
    (last.op = "main" /\ last.exc # None) => last.exit = "1"

\* C11. Voice/format validation: OpenAITTSProvider.synthesize raises, before
\* any request to the backend and before any file is written, for every voice
\* outside VOICES and every format outside AUDIO_FORMATS, and the failure
\* names the rejected value and lists the members of the set; an absent voice
\* or format stands for the default and is accepted.
VoiceFormatValidation ==
    last.op = "provider.synthesize" =>
        LET v == IF last.voice = None THEN DEFAULT_VOICE ELSE last.voice
            f == IF last.format = None THEN DEFAULT_FORMAT ELSE last.format
            rejected == v \notin VOICES \/ f \notin AUDIO_FORMATS
        IN  /\ rejected =>
                  /\ last.exc = "ValueError"
                  /\ last.calls = << >>
                  /\ outFiles = last.outBefore
                  /\ tmpFiles = last.tmpBefore
                  /\ meta = last.metaBefore
                  /\ audio = last.audioBefore
                  /\ Len(last.msg) = 3
                  /\ last.msg[2] = (IF v \notin VOICES THEN v ELSE f)
                  /\ last.msg[3] = (IF v \notin VOICES THEN VOICES
                                    ELSE AUDIO_FORMATS)
            /\ ~rejected =>
                  /\ last.exc # "ValueError"
                  /\ last.calls # << >>
                  /\ last.calls[1] = <<"backend", f>>

\* A voice outside the set was rejected although the backend would have
\* answered, and a request with the voice and the format absent was served.
VoiceFormatValidationWitness ==
    /\ last.op = "provider.synthesize"
    /\ last.voice = "bogus"
    /\ last.exc = "ValueError"
    /\ last.msg = <<"Invalid voice", "bogus", VOICES>>
    /\ last.output_file # None

\* C12. Provider selection: the construction of a TTSService chooses the
\* OpenAI provider iff a credential is set and the credential check succeeds,
\* and the `say` provider otherwise; as long as the process lives the choice
\* stays, every synthesis uses it, and a failing synthesis does not turn to
\* the other provider.
ProviderSelection ==
    [][/\ last'.op = "TTSService" =>
              provider' = IF last'.apiKey /\ last'.checkOk
                          THEN "OpenAITTSProvider" ELSE "MacOSsayProvider"
       /\ (pc = "service" /\ pc' = "service") => provider' = provider
       /\ last'.op \in {"synthesize", "provider.synthesize"} =>
              /\ last'.providerName = provider
              /\ \A k \in 1 .. Len(last'.calls) :
                    last'.calls[k][1] #
                        (IF provider = "OpenAITTSProvider" THEN "say"
                         ELSE "backend")]_vars

\* A synthesis with the OpenAI provider failed at the backend; the process
\* still holds the OpenAI provider and `say` was not started.
ProviderSelectionWitness ==
    /\ last.op = "synthesize"
    /\ last.exc = "RuntimeError"
    /\ last.providerName = "OpenAITTSProvider"
    /\ provider = "OpenAITTSProvider"
    /\ pc = "service"
    /\ last.calls # << >>

\* C13. Ephemeral file cleanup: when OpenAITTSProvider.synthesize is called
\* without an output target, no temporary audio file of the call is left when
\* it returns or raises, whether it succeeded, failed while the audio stream
\* was written into the file, or failed in the player.
EphemeralFileCleanup ==
    (last.op = "provider.synthesize" /\ last.output_file = None) =>
        tmpFiles = last.tmpBefore

\* C14. Eventually bounded cache under concurrent invocations: whenever an
\* invocation has run the eviction pass of its AudioCache construction alone,
\* with no step of another invocation since it started, at most
\* MAX_CACHE_SIZE metadata records are left, whatever number two interleaved
\* invocations left behind before.
EventuallyBoundedCache ==
    \A p \in Procs :
        (procs[p].at = "ready" /\ procs[p].alone) =>
            Cardinality(DOMAIN meta) <= MAX_CACHE_SIZE

\* Two invocations both ran their pass before either committed and left
\* MAX_CACHE_SIZE + 2 records, two of them new; the next construction ran
\* alone on that directory and is through.
EventuallyBoundedCacheWitness ==
    /\ last.op = "_cleanup_old_files"
    /\ Cardinality(DOMAIN last.metaBefore) = MAX_CACHE_SIZE + 2
    /\ Cardinality({i \in DOMAIN last.metaBefore :
                        last.metaBefore[i].mtime > NumIds}) = 2
    /\ procs[last.id].at = "ready"
    /\ procs[last.id].alone
    /\ Cardinality(DOMAIN meta) = MAX_CACHE_SIZE

\* The invocation whose eviction pass, started alone, is under way or just
\* through; cutting it off here leaves the directory as it is now.
InPass(p) ==
    /\ last.op = "_cleanup_old_files"
    /\ last.id = p
    /\ procs[p].at \in {"audio", "record", "ready"}

\* C15. Crash-safe eviction order: at every step of an eviction pass, no
\* entry whose metadata record the pass has removed still has an audio
\* payload; and a record that had lost its audio before the pass and lies
\* beyond the MAX_CACHE_SIZE newest is removed once the pass is through.
CrashSafeEvictionOrder ==
    \A p \in Procs :
        InPass(p) =>
            /\ \A j \in DOMAIN last.metaBefore \ DOMAIN meta :
                  Payload(last.metaBefore, last.audioBefore, j) \cap audio = {}
            /\ procs[p].at = "ready" =>
                  \A k \in 1 .. Len(OldFiles(last.metaBefore)) :
                      LET j == OldFiles(last.metaBefore)[k]
                      IN  Payload(last.metaBefore, last.audioBefore, j) = {}
                              => j \notin DOMAIN meta

\* The position of the first call of one name in the calls of the last
\* operation, 0 when there is none.
CallAt(name) ==
    LET at == {k \in 1 .. Len(last.calls) : last.calls[k][1] = name}
    IN  IF at = {} THEN 0 ELSE CHOOSE k \in at : \A j \in at : k <= j

\* C16. Commit only after audio and playback: on the cache path synthesize
\* allocates the slot, has the provider write the audio at the slot's path,
\* plays it and only then writes the metadata; a record is written only when
\* the audio payload exists; and when the synthesis or the playback fails no
\* record is written and the slot's id is not in list_cached.
CommitAfterAudioAndPlayback ==
    (last.op = "synthesize" /\ last.output_file = None /\ last.cache) =>
        LET fmt == IF last.format = None THEN "mp3" ELSE last.format
            committed == CallAt("save_metadata") # 0
        IN  /\ Len(last.calls) >= 2
            /\ last.calls[1] = <<"generate_cache_path", fmt>>
            /\ last.calls[2] = <<"provider.synthesize", "cache">>
            /\ CallAt("afplay") # 0 =>
                  /\ CallAt("afplay") > 2
                  /\ AudioName(last.id, fmt) \in audio
            /\ committed =>
                  /\ CallAt("save_metadata") = Len(last.calls)
                  /\ CallAt("afplay") = Len(last.calls) - 1
                  /\ AudioName(last.id, fmt) \in audio
            /\ meta # last.metaBefore => committed
            /\ (last.exc # None /\ ~committed) =>
                  /\ meta = last.metaBefore
                  /\ \A k \in 1 .. Len(ListCachedOf(meta)) :
                        ListCachedOf(meta)[k].id # last.id

\* C17. Entry lifecycle: a metadata record is created or rewritten only by
\* the cache branch of synthesize, in a process that has constructed its
\* cache; records are deleted only by the eviction pass of a construction,
\* which is the first thing an invocation does to the cache and happens once;
\* listing and replay change nothing beyond the pass of their construction.
EntryLifecycle ==
    [][LET created == DOMAIN meta' \ DOMAIN meta
           deleted == DOMAIN meta \ DOMAIN meta'
           rewritten == {i \in DOMAIN meta \cap DOMAIN meta' :
                            meta'[i] # meta[i]}
       IN  /\ (created \cup rewritten) # {} =>
                  /\ pc = "service"
                  /\ last'.op = "main"
                  /\ last'.output_file = None
                  /\ last'.cache
                  /\ created \cup rewritten = {last'.id}
           /\ deleted # {} =>
                  /\ pc = "start"
                  /\ last'.op \in ConstructionOps
           /\ last'.op \in ConstructionOps =>
                  /\ pc = "start"
                  /\ created \cup rewritten = {}
                  /\ Cardinality(DOMAIN meta') =
                         Min(Cardinality(DOMAIN meta), MAX_CACHE_SIZE)
           /\ last'.op = "main" => pc = "service"]_vars

\* An invocation constructed its cache on MAX_CACHE_SIZE + 1 records or more,
\* which evicted, and then committed a new entry through the cache branch.
EntryLifecycleWitness ==
    /\ last.op = "main"
    /\ last.exc = None
    /\ last.output_file = None
    /\ last.cache
    /\ DOMAIN meta \ DOMAIN last.metaBefore = {last.id}
    /\ Cardinality(DOMAIN last.metaBefore) = MAX_CACHE_SIZE
    /\ \E i \in 1 .. NumIds : i \notin DOMAIN meta

\* An audio payload of the files (m, a) whose id has no metadata record.
Orphaned(m, f) == f[1] \notin DOMAIN m

\* C18. Orphaned audio is never cleaned: no step of any invocation, the steps
\* of the eviction pass included, deletes an audio payload that has no
\* metadata record, and list_cached returns no entry for such a payload.
OrphanedAudioNeverCleaned ==
    [][\A f \in audio :
          Orphaned(meta, f) =>
              /\ f \in audio'
              /\ Orphaned(meta', f) =>
                    \A k \in 1 .. Len(ListCachedOf(meta')) :
                        /\ ListCachedOf(meta')[k].audio_file # f
                        /\ ListCachedOf(meta')[k].id # f[1]]_vars

\* An invocation wrote an audio payload and was stopped before the commit; a
\* later eviction pass removed records and their payloads and is through,
\* and the payload without a record is still there.
OrphanedAudioWitness ==
    \E p \in Procs :
        /\ InPass(p)
        /\ procs[p].at = "ready"
        /\ DOMAIN last.metaBefore \ DOMAIN meta # {}
        /\ last.audioBefore \ audio # {}
        /\ \E f \in last.audioBefore :
              /\ Orphaned(last.metaBefore, f)
              /\ \A i \in DOMAIN last.metaBefore :
                    WellFormed(last.metaBefore, i)
              /\ f \in audio
              /\ Orphaned(meta, f)

\* The picker of the last play_cached was installed, was given a listing that
\* is not empty, exited with status 0 and printed a selection.
PickerSelected == last.fzf = "selected" /\ ListCachedOf(meta) # << >>

\* C19. Replay without an id, as stated: play_cached without an id starts the
\* player iff the picker is installed, the listing is not empty, the picker
\* exits successfully and prints a selection; in every other case it returns
\* without playback and raises nothing.
ReplayWithoutId ==
    (last.op = "play_cached" /\ last.id = 0) =>
        /\ CallAt("afplay") # 0 <=> PickerSelected
        /\ CallAt("afplay") = 0 => last.exc = None

\* C19, amended: play_cached without an id starts the player iff the picker
\* is installed, the listing is not empty, the picker exits successfully and
\* prints a selection, and the audio payload of the selected entry exists; in
\* every other case it returns without playback and raises nothing.
ReplayWithoutIdIfAudioExists ==
    (last.op = "play_cached" /\ last.id = 0) =>
        /\ CallAt("afplay") # 0 <=>
              /\ PickerSelected
              /\ WellFormed(meta, last.selected)
              /\ JsonLoad(meta[last.selected].content).audio_file \in audio
        /\ CallAt("afplay") = 0 => last.exc = None

\* The picker returned an entry of the listing whose audio payload is gone:
\* nothing was played and nothing was raised.
ReplayWithoutIdWitness ==
    /\ last.op = "play_cached"
    /\ last.id = 0
    /\ PickerSelected
    /\ WellFormed(meta, last.selected)
    /\ JsonLoad(meta[last.selected].content).audio_file \notin audio
    /\ CallAt("afplay") = 0
    /\ last.ret = "False"
    /\ last.exc = None

\* C20. Under invocations that do not overlap, a directory that starts with
\* at most MAX_CACHE_SIZE metadata records never holds more than
\* MAX_CACHE_SIZE + 1 of them.
SequentialCountBound ==
    (Cardinality(DOMAIN meta) <= MAX_CACHE_SIZE) =>
        [](Cardinality(DOMAIN meta) <= MAX_CACHE_SIZE + 1)

\* The second commit of a run: the invocation found MAX_CACHE_SIZE + 1 records,
\* the newest of them committed by the invocation before it, evicted down to
\* MAX_CACHE_SIZE and committed its own entry.
SequentialCountBoundWitness ==
    /\ procs[1].at = "done"
    /\ last.op = "_cleanup_old_files"
    /\ Cardinality(DOMAIN last.metaBefore) = MAX_CACHE_SIZE + 1
    /\ \E i \in DOMAIN last.metaBefore : last.metaBefore[i].mtime > NumIds
    /\ Cardinality(DOMAIN meta) = MAX_CACHE_SIZE + 1
    /\ Cardinality({i \in DOMAIN meta : meta[i].mtime > NumIds}) = 2

\* C21. Two concurrent constructions on a directory of more than
\* MAX_CACHE_SIZE records: no eviction pass ends with an exception because
\* the other pass has already deleted a file, and when both constructions
\* are through, with files to evict and no commit in between, exactly
\* MAX_CACHE_SIZE records are left.
ConcurrentEvictionsComplete ==
    /\ \A p \in Procs :
          /\ procs[p].at # "failed"
          /\ procs[p].exc = None
    /\ ( /\ \A p \in Procs : procs[p].at = "ready"
         /\ \E p \in Procs : procs[p].evicting
         /\ clock = NumIds + 1 ) =>
          Cardinality(DOMAIN meta) = MAX_CACHE_SIZE

\* The number of records of the files m that were modified later than i.
NewerThan(m, i) == Cardinality({j \in DOMAIN m : m[j].mtime > m[i].mtime})

\* The records of the files m that json.load can read.
Readable(m) == {i \in DOMAIN m : JsonParses(m[i].content)}

\* C22. Eviction ranks and counts malformed records like well-formed ones:
\* right after a construction a record is left iff fewer than MAX_CACHE_SIZE
\* records of the directory were newer, readable or not; so list_cached
\* returns the readable ones among those, at most MAX_CACHE_SIZE, and fewer
\* than the readable records there were before whenever a malformed record
\* was retained while a well-formed one was evicted.
MalformedRecordsRanked ==
    Constructed =>
        LET before == last.metaBefore
            listed == Len(ListCachedOf(meta))
        IN  /\ \A i \in DOMAIN before :
                  i \in DOMAIN meta <=> NewerThan(before, i) < MAX_CACHE_SIZE
            /\ listed = Cardinality(Readable(meta))
            /\ listed <= MAX_CACHE_SIZE
            /\ ( /\ DOMAIN meta \ Readable(meta) # {}
                 /\ Readable(before) \ DOMAIN meta # {} ) =>
                  /\ listed < MAX_CACHE_SIZE
                  /\ listed < Cardinality(Readable(before))

\* A malformed record among the MAX_CACHE_SIZE newest was retained and a
\* well-formed older one was evicted: the listing is shorter than
\* MAX_CACHE_SIZE although more well-formed records existed before.
MalformedRecordsRankedWitness ==
    /\ last.op = "AudioCache"
    /\ DOMAIN meta \ Readable(meta) # {}
    /\ Readable(last.metaBefore) \ DOMAIN meta # {}
    /\ Cardinality(Readable(last.metaBefore)) >= MAX_CACHE_SIZE
    /\ Len(ListCachedOf(meta)) = MAX_CACHE_SIZE - 1
    /\ Cardinality(DOMAIN meta) = MAX_CACHE_SIZE

====
